---- MODULE Spec2Model ----
(***************************************************************************)
(* A model of meminfo.py: the /proc readers (getMemInfo,                   *)
(* getProcessMemFromStatus, getProcessInfo, getProcessInfos), the report   *)
(* builder doIt and the __main__ guard around it.                          *)
(*                                                                         *)
(* Text is modelled as Python sees it: a string is a sequence of           *)
(* one-character strings, a file is a sequence of lines, split() and int() *)
(* are computed on the characters.  Python's None is the empty sequence    *)
(* <<>> and a value x that may be None is carried as <<x>>.                *)
(***************************************************************************)
EXTENDS Integers, Sequences, FiniteSets, TLC

VARIABLES
  pc,        \* position of the run: which statement of __main__/doIt/getProcessInfo is next
  out,       \* the report sections printed on stdout so far
  stderr,    \* what the interpreter printed about an uncaught exception
  raised,    \* the exception that ended doIt, <<>> when none
  meminfo,   \* doIt's meminfo hash, <<>> before getMemInfo returned
  kernelUptime, \* getProcessInfos' kernelUptime (ticks)
  names,     \* the entries of os.listdir("/proc") not yet visited
  pid,       \* the process id getProcessInfo is working on
  pinfo,     \* getProcessInfo's pinfo hash, as filled so far
  pinfos,    \* getProcessInfos' result hash: pid -> pinfo
  pinfoRet,  \* what the last getProcessInfo call returned, None or <<pinfo>>
  why,       \* how that call ended: "record" or the step that gave up
  visited,   \* the pids getProcessInfo was called for
  yielded,   \* the pids for which getProcessInfo returned a record
  plist,     \* doIt's first plist: (ures, pid), sorted and reversed
  statMap,   \* doIt's statMap, as the sorted list of statusMem keys
  maxCpu,    \* doIt's maxCpu
  processTable, \* rows added to processTable (header row left out)
  ulist,     \* doIt's ulist: (ures, ucount, utime, stime, uid)
  pusageTable,  \* rows added to pusageTable, the Rest row last
  cpuTable,  \* rows added to cpuTable; <<>> when the section is skipped
  statusIn,  \* a /proc/PID/status file handed to getProcessMemFromStatus
  statusOut  \* what getProcessMemFromStatus made of statusIn

vars == <<pc, out, stderr, raised, meminfo, kernelUptime, names, pid, pinfo,
          pinfos, pinfoRet, why, visited, yielded, plist, statMap, maxCpu, processTable,
          ulist, pusageTable, cpuTable, statusIn, statusOut>>

-----------------------------------------------------------------------------
(* Python values *)

None == <<>>
Some(x) == <<x>>

\* the characters the modelled files use, in ASCII order
Chars == <<"\t", "\n", " ", "(", ")", "-", ".",
           "0", "1", "2", "3", "4", "5", "6", "7", "8", "9", ":",
           "A", "B", "C", "D", "E", "F", "G", "H", "I", "J", "K", "L", "M",
           "N", "O", "P", "Q", "R", "S", "T", "U", "V", "W", "X", "Y", "Z",
           "a", "b", "c", "d", "e", "f", "g", "h", "i", "j", "k", "l", "m",
           "n", "o", "p", "q", "r", "s", "t", "u", "v", "w", "x", "y", "z">>

Ord(c) == CHOOSE i \in 1..Len(Chars) : Chars[i] = c

Whitespace == {"\t", "\n", " "}

Digits == <<"0", "1", "2", "3", "4", "5", "6", "7", "8", "9">>

IsDigit(c) == \E i \in 1..Len(Digits) : Digits[i] = c

DigitVal(c) == (CHOOSE i \in 1..Len(Digits) : Digits[i] = c) - 1

\* Python's s[a:b] for 0 <= a, with b counted from the end when negative
Slice(s, a, b) ==
  LET e == IF b < 0 THEN Len(s) + b ELSE IF b > Len(s) THEN Len(s) ELSE b
  IN  IF e <= a THEN <<>> ELSE SubSeq(s, a + 1, e)

\* Python's comparison of two str: lexicographic by character code
RECURSIVE strLessFrom(_, _, _)
strLessFrom(a, b, i) ==
  IF i > Len(a) THEN i <= Len(b)
  ELSE IF i > Len(b) THEN FALSE
  ELSE IF Ord(a[i]) < Ord(b[i]) THEN TRUE
  ELSE IF Ord(b[i]) < Ord(a[i]) THEN FALSE
  ELSE strLessFrom(a, b, i + 1)

StrLess(a, b) == strLessFrom(a, b, 1)

\* Python's comparison of two tuples whose entries are int, except that the
\* entries at the positions in strAt are str: lexicographic
RECURSIVE tupleLessFrom(_, _, _, _)
tupleLessFrom(a, b, i, strAt) ==
  IF i > Len(a) THEN i <= Len(b)
  ELSE IF i > Len(b) THEN FALSE
  ELSE IF i \in strAt
       THEN IF StrLess(a[i], b[i]) THEN TRUE
            ELSE IF StrLess(b[i], a[i]) THEN FALSE
            ELSE tupleLessFrom(a, b, i + 1, strAt)
       ELSE IF a[i] < b[i] THEN TRUE
            ELSE IF b[i] < a[i] THEN FALSE
            ELSE tupleLessFrom(a, b, i + 1, strAt)

TupleLess(a, b, strAt) == tupleLessFrom(a, b, 1, strAt)

\* list.sort() on a list of such tuples (insertion into the sorted prefix),
\* and list.reverse()
RECURSIVE insertSorted(_, _, _, _)
insertSorted(x, l, i, strAt) ==
  IF i > Len(l) THEN Append(l, x)
  ELSE IF TupleLess(x, l[i], strAt)
       THEN SubSeq(l, 1, i - 1) \o <<x>> \o SubSeq(l, i, Len(l))
       ELSE insertSorted(x, l, i + 1, strAt)

RECURSIVE sortFrom(_, _, _, _)
sortFrom(l, i, acc, strAt) ==
  IF i > Len(l) THEN acc
  ELSE sortFrom(l, i + 1, insertSorted(l[i], acc, 1, strAt), strAt)

sort(l, strAt) == sortFrom(l, 1, <<>>, strAt)

reverse(l) == [i \in 1..Len(l) |-> l[Len(l) + 1 - i]]

\* str.split(): the maximal runs of non-whitespace characters.  The runs of
\* s[a..b] are those of its two halves, the run that crosses the middle joined.
RECURSIVE splitRange(_, _, _)
splitRange(s, a, b) ==
  IF a > b THEN <<>>
  ELSE IF a = b THEN IF s[a] \in Whitespace THEN <<>> ELSE << <<s[a]>> >>
  ELSE LET mid == (a + b) \div 2
           l == splitRange(s, a, mid)
           r == splitRange(s, mid + 1, b)
       IN  IF s[mid] \notin Whitespace /\ s[mid + 1] \notin Whitespace
           THEN SubSeq(l, 1, Len(l) - 1) \o <<l[Len(l)] \o r[1]>> \o Tail(r)
           ELSE l \o r

split(s) == splitRange(s, 1, Len(s))

\* int(s) succeeds on an optional minus sign followed by one or more digits
IsIntLiteral(s) ==
  LET d == IF Len(s) > 0 /\ s[1] = "-" THEN Tail(s) ELSE s
  IN  Len(d) > 0 /\ \A i \in 1..Len(d) : IsDigit(d[i])

RECURSIVE digitsValue(_, _, _)
digitsValue(d, i, acc) ==
  IF i > Len(d) THEN acc ELSE digitsValue(d, i + 1, acc * 10 + DigitVal(d[i]))

int(s) ==
  IF s[1] = "-" THEN 0 - digitsValue(Tail(s), 1, 0) ELSE digitsValue(s, 1, 0)

\* a call that may raise: [ok |-> TRUE, val |-> v] or [ok |-> FALSE, exc |-> e]
Return(v) == [ok |-> TRUE, val |-> v]
Raise(e) == [ok |-> FALSE, exc |-> e, arg |-> <<>>]
RaiseKeyError(k) == [ok |-> FALSE, exc |-> "KeyError", arg |-> k]

-----------------------------------------------------------------------------
(* parseSplitFile, parseDelimFile, parseNumberFile.  A file is its lines;   *)
(* open() of a path that is gone raises IOError.                            *)

File(lines) == [exists |-> TRUE, lines |-> lines]
NoFile == [exists |-> FALSE]

parseSplitFile(file) ==
  IF ~file.exists THEN Raise("IOError")
  ELSE Return([i \in 1..Len(file.lines) |-> split(file.lines[i])])

parseDelimFile(file) ==
  IF ~file.exists THEN Raise("IOError")
  ELSE Return(IF Len(file.lines) = 0 THEN <<>> ELSE split(file.lines[1]))

parseNumberFile(file) ==
  IF ~file.exists THEN Raise("IOError")
  ELSE LET toks == IF Len(file.lines) = 0 THEN <<>> ELSE split(file.lines[1])
       IN  IF \E i \in 1..Len(toks) : ~IsIntLiteral(toks[i])
           THEN Raise("ValueError")
           ELSE Return([i \in 1..Len(toks) |-> int(toks[i])])

-----------------------------------------------------------------------------
(* getProcessMemFromStatus *)

vmStatusMap ==
  (<<"P", "e", "a", "k">> :> <<"V", "I", "R", "T", "-", "P">>) @@
  (<<"L", "c", "k">>      :> <<"L", "C", "K", "D">>) @@
  (<<"H", "W", "M">>      :> <<"H", "W", "R", "E", "S">>) @@
  (<<"D", "a", "t", "a">> :> <<"D", "A", "T", "A">>) @@
  (<<"S", "t", "k">>      :> <<"S", "T", "A", "C", "K">>) @@
  (<<"E", "x", "e">>      :> <<"E", "X", "E">>) @@
  (<<"L", "i", "b">>      :> <<"L", "I", "B">>) @@
  (<<"P", "T", "E">>      :> <<"P", "T", "E">>)

\* a mutant of statusValue: the ceiling itself is already out of range
statusValue_atCeiling(v) == IF v >= 4 * 1024 * 1024 THEN -1 ELSE v

\* "if v > 4*1024*1024: v = -1"
statusValue(v) == IF v > 4 * 1024 * 1024 THEN -1 ELSE v

\* "if len(ret) == 0: return None; return ret"
statusResult(ret) == IF Cardinality(DOMAIN ret) = 0 THEN None ELSE Some(ret)

\* the loop over the lines, from line i on, with ret as built so far
RECURSIVE statusLoop(_, _, _)
statusLoop(lines, i, ret) ==
  IF i > Len(lines) THEN Return(ret)
  ELSE LET line == lines[i] IN
    IF Len(line) = 0 THEN Raise("IndexError")
    ELSE IF Slice(line[1], 0, 2) # <<"V", "m">> THEN statusLoop(lines, i + 1, ret)
    ELSE LET vmLabel == Slice(line[1], 2, -1) IN
      IF vmLabel \notin DOMAIN vmStatusMap THEN statusLoop(lines, i + 1, ret)
      ELSE IF Len(line) < 2 THEN Raise("IndexError")
      ELSE IF ~IsIntLiteral(line[2]) THEN Raise("ValueError")
      ELSE statusLoop(lines, i + 1,
                      (vmStatusMap[vmLabel] :> statusValue(int(line[2]))) @@ ret)

getProcessMemFromStatus(file) ==
  LET lines == parseSplitFile(file) IN
  IF ~lines.ok THEN lines
  ELSE LET r == statusLoop(lines.val, 1, <<>>) IN
       IF ~r.ok THEN r ELSE Return(statusResult(r.val))

-----------------------------------------------------------------------------
(* getMemInfo *)

sMemTotal == <<"M", "e", "m", "T", "o", "t", "a", "l">>
sMemFree == <<"M", "e", "m", "F", "r", "e", "e">>
sBuffers == <<"B", "u", "f", "f", "e", "r", "s">>
sCached == <<"C", "a", "c", "h", "e", "d">>
sSwapTotal == <<"S", "w", "a", "p", "T", "o", "t", "a", "l">>
sSwapFree == <<"S", "w", "a", "p", "F", "r", "e", "e">>
sUserspaceFree == <<"U", "s", "e", "r", "s", "p", "a", "c", "e", "F", "r", "e", "e">>
sSwapUsed == <<"S", "w", "a", "p", "U", "s", "e", "d">>

\* the loop over the lines of /proc/meminfo
RECURSIVE memInfoLoop(_, _, _)
memInfoLoop(lines, i, ret) ==
  IF i > Len(lines) THEN Return(ret)
  ELSE LET line == lines[i] IN
    IF Len(line) = 0 THEN Raise("IndexError")
    ELSE LET label == line[1] IN
      IF label = <<"t", "o", "t", "a", "l", ":">> THEN memInfoLoop(lines, i + 1, ret)
      ELSE IF label[Len(label)] # ":" THEN memInfoLoop(lines, i + 1, ret)
      ELSE IF Len(line) < 2 THEN Raise("IndexError")
      ELSE IF ~IsIntLiteral(line[2]) THEN Raise("ValueError")
      ELSE memInfoLoop(lines, i + 1, (Slice(label, 0, -1) :> int(line[2])) @@ ret)

\* the first of the keys that ret lacks, as ret[k] raises KeyError on it
RECURSIVE firstMissing(_, _, _)
firstMissing(ret, keys, i) ==
  IF i > Len(keys) THEN None
  ELSE IF keys[i] \notin DOMAIN ret THEN Some(keys[i])
  ELSE firstMissing(ret, keys, i + 1)

\* ret["UserspaceFree"] = ...; ret["SwapUsed"] = ...
derivedMemInfo(ret) ==
  LET m1 == firstMissing(ret, <<sMemFree, sBuffers, sCached>>, 1) IN
  IF m1 # None THEN RaiseKeyError(m1[1])
  ELSE LET ret1 == (sUserspaceFree :> (ret[sMemFree] + ret[sBuffers] + ret[sCached])) @@ ret
           m2 == firstMissing(ret1, <<sSwapTotal, sSwapFree>>, 1)
       IN  IF m2 # None THEN RaiseKeyError(m2[1])
           ELSE Return((sSwapUsed :> (ret1[sSwapTotal] - ret1[sSwapFree])) @@ ret1)

getMemInfo(file) ==
  LET lines == parseSplitFile(file) IN
  IF ~lines.ok THEN lines
  ELSE LET r == memInfoLoop(lines.val, 1, <<>>) IN
       IF ~r.ok THEN r ELSE derivedMemInfo(r.val)

-----------------------------------------------------------------------------
(* getProcessInfo: the reads of one process, each of which may meet a       *)
(* process that is gone                                                     *)

PAGE_SIZE == 4096

pageConv == PAGE_SIZE \div 1024

\* a mutant of isKernelThread: no process is taken for a kernel thread
isKernelThread_never(pmem) == FALSE

\* "if pmem[0] == 0: return None"
isKernelThread(pmem) == pmem[1] = 0

\* pinfo["ures"] = pmem[1] - pmem[2]
uniqueRes(res, shared) == res - shared

\* the statm part of pinfo; None for a kernel thread
readStatm(file) ==
  LET pm == parseNumberFile(file) IN
  IF ~pm.ok THEN pm
  ELSE LET n == IF Len(pm.val) < 3 THEN Len(pm.val) ELSE 3
           pmem == [i \in 1..n |-> pm.val[i] * pageConv]
       IN  IF Len(pmem) < 1 THEN Raise("IndexError")
           ELSE IF isKernelThread(pmem) THEN Return(None)
           ELSE IF Len(pmem) < 3 THEN Raise("IndexError")
           ELSE Return(Some([vmsize |-> pmem[1], res |-> pmem[2], shared |-> pmem[3],
                             ures |-> uniqueRes(pmem[2], pmem[3])]))

\* the stat part of pinfo (fields 1, 2, 9, 11, 13, 14, 38, 21, 3 of the line)
readStat(file, p, kernelBootTicks) ==
  LET ps == parseDelimFile(file) IN
  IF ~ps.ok THEN ps
  ELSE LET pstat == ps.val IN
    IF Len(pstat) < 39 THEN Raise("IndexError")
    ELSE IF \E i \in {10, 12, 14, 15, 39, 22, 4} : ~IsIntLiteral(pstat[i])
         THEN Raise("ValueError")
    ELSE Return([cmd |-> Slice(pstat[2], 1, -1), state |-> pstat[3],
                 minflt |-> int(pstat[10]), majflt |-> int(pstat[12]),
                 utime |-> int(pstat[14]), stime |-> int(pstat[15]),
                 cpu |-> int(pstat[39]),
                 existsFor |-> kernelBootTicks - int(pstat[22]),
                 pid |-> p, ppid |-> int(pstat[4])])

\* threadCount: 0 unless /proc/PID/task can be listed
countThreads(task) == IF task = None THEN 0 ELSE task[1]

-----------------------------------------------------------------------------
(* doIt: the views *)

max(a, b) == IF a >= b THEN a ELSE b

\* the keys of a hash as a list (Python gives them in no particular order)
RECURSIVE keysOf(_)
keysOf(S) ==
  IF S = {} THEN <<>>
  ELSE LET k == CHOOSE x \in S : TRUE IN <<k>> \o keysOf(S \ {k})

\* the loop "for pid, v in pinfos.items()" that fills maxCpu, plist and statMap
RECURSIVE rankLoop(_, _, _, _)
rankLoop(d, keys, i, acc) ==
  IF i > Len(keys) THEN Return(acc)
  ELSE LET v == d[keys[i]] IN
    IF v.statusMem = None THEN Raise("TypeError")
    ELSE rankLoop(d, keys, i + 1,
                  [maxCpu |-> max(acc.maxCpu, v.cpu),
                   plist |-> Append(acc.plist, <<v.ures, keys[i]>>),
                   statMap |-> IF Cardinality(DOMAIN v.statusMem[1]) > 0
                               THEN acc.statMap \cup DOMAIN v.statusMem[1]
                               ELSE acc.statMap])

\* plist.sort(); plist.reverse()
ranked(l) == reverse(sort(l, {}))

\* statMap = statMap.keys(); statMap.sort()
sortedKeys(S) ==
  LET l == sort([i \in 1..Cardinality(S) |-> <<keysOf(S)[i]>>], {1})
  IN  [i \in 1..Len(l) |-> l[i][1]]

\* "maxCpu > 0", the test that gates the C# column and the per-CPU section
showCpu(d, m) == m > 0

getProcessRow(v, smap, withCpu) ==
  IF v.statusMem = None THEN Raise("AttributeError")
  ELSE Return([pid |-> v.pid, uid |-> v.uid, ures |-> v.ures, shared |-> v.shared,
               vmsize |-> v.vmsize,
               statusMem |-> [i \in 1..Len(smap) |->
                                IF smap[i] \in DOMAIN v.statusMem[1]
                                THEN Some(v.statusMem[1][smap[i]]) ELSE None],
               minflt |-> v.minflt, majflt |-> v.majflt,
               cpu |-> IF withCpu THEN Some(v.cpu) ELSE None,
               existsFor |-> v.existsFor, state |-> v.state, cmd |-> v.cmd,
               threads |-> v.threads])

\* a mutant of totalsLoop: a key met again starts over instead of adding up
RECURSIVE totalsLoop_overwrite(_, _, _, _, _)
totalsLoop_overwrite(d, keys, i, field, acc) ==
  IF i > Len(keys) THEN acc
  ELSE LET v == d[keys[i]]
           k == v[field]
       IN  totalsLoop_overwrite(d, keys, i + 1, field,
             IF k \in DOMAIN acc
             THEN [acc EXCEPT ![k] = <<v.ures, 1, v.utime, v.stime>>]
             ELSE (k :> <<v.ures, 1, v.utime, v.stime>>) @@ acc)

\* the three loops that total ures, count, utime and stime per uid, cmd or cpu
RECURSIVE totalsLoop(_, _, _, _, _)
totalsLoop(d, keys, i, field, acc) ==
  IF i > Len(keys) THEN acc
  ELSE LET v == d[keys[i]]
           k == v[field]
       IN  totalsLoop(d, keys, i + 1, field,
             IF k \in DOMAIN acc
             THEN [acc EXCEPT ![k] = <<@[1] + v.ures, @[2] + 1, @[3] + v.utime, @[4] + v.stime>>]
             ELSE (k :> <<v.ures, 1, v.utime, v.stime>>) @@ acc)

users(d) == totalsLoop(d, keysOf(DOMAIN d), 1, "uid", <<>>)

pusage(d) == totalsLoop(d, keysOf(DOMAIN d), 1, "cmd", <<>>)

cpuStats(d) == totalsLoop(d, keysOf(DOMAIN d), 1, "cpu", <<>>)

\* the list of (ures, count, utime, stime, key) made of such a hash
totalsList(t) ==
  LET keys == keysOf(DOMAIN t)
  IN  [i \in 1..Len(keys) |-> t[keys[i]] \o <<keys[i]>>]

\* a mutant of ulistOf: sorted on (ures, uid), as the comment above it says
ulistOf_uresUid(t) ==
  LET l == totalsList(t)
      k == reverse(sort([i \in 1..Len(l) |-> <<l[i][1], l[i][5], l[i][2], l[i][3], l[i][4]>>], {}))
  IN  [i \in 1..Len(k) |-> <<k[i][1], k[i][3], k[i][4], k[i][5], k[i][2]>>]

\* ulist.sort(); ulist.reverse()
ulistOf(t) == reverse(sort(totalsList(t), {}))

\* the second plist: plist.sort(); plist.reverse()
cmdListOf(t) == reverse(sort(totalsList(t), {5}))

sRest == <<"R", "e", "s", "t">>

\* "if ures < 1024", the test that lumps a command into Rest
restThreshold(ures) == ures < 1024

\* the loop over the second plist: the rows added, then the Rest row
RECURSIVE pusageLoop(_, _, _, _)
pusageLoop(l, i, rows, rest) ==
  IF i > Len(l) THEN Append(rows, <<sRest, rest[2], rest[3], rest[4], rest[1]>>)
  ELSE IF restThreshold(l[i][1])
       THEN pusageLoop(l, i + 1, rows,
                       <<rest[1] + l[i][1], rest[2] + 1, rest[3] + l[i][3], rest[4] + l[i][4]>>)
       ELSE pusageLoop(l, i + 1, Append(rows, <<l[i][5], l[i][2], l[i][3], l[i][4], l[i][1]>>), rest)

pusageRows(t) == pusageLoop(cmdListOf(t), 1, <<>>, <<0, 0, 0, 0>>)

\* cpuList of [cpu, count, utime, stime, ures], sorted
cpuRows(t) ==
  LET keys == keysOf(DOMAIN t)
  IN  sort([i \in 1..Len(keys) |->
             <<keys[i], t[keys[i]][2], t[keys[i]][3], t[keys[i]][4], t[keys[i]][1]>>], {})

-----------------------------------------------------------------------------
(* What the kernel writes: the text of the /proc files, formatted from the  *)
(* values it reports.                                                       *)

\* "%d" of a natural number
RECURSIVE Str(_)
Str(n) == IF n < 10 THEN <<Digits[n + 1]>> ELSE Str(n \div 10) \o <<Digits[(n % 10) + 1]>>

\* tokens a..b joined by single blanks
RECURSIVE JoinRange(_, _, _)
JoinRange(toks, a, b) ==
  IF a > b THEN <<>>
  ELSE IF a = b THEN toks[a]
  ELSE LET mid == (a + b) \div 2
       IN  JoinRange(toks, a, mid) \o <<" ">> \o JoinRange(toks, mid + 1, b)

Join(toks) == JoinRange(toks, 1, Len(toks))

SeqsUpTo(S, n) == UNION {[1..k -> S] : k \in 0..n}

MaxLines == 2

VmNames == {<<"V", "m">> \o k : k \in DOMAIN vmStatusMap}

StatusLabels ==
  VmNames \cup {<<"V", "m", "S", "i", "z", "e">>, <<"V", "m", "R", "S", "S">>,
                <<"N", "a", "m", "e">>}

StatusValues == {0, 12, 4 * 1024 * 1024, 4 * 1024 * 1024 + 1}

\* one line of /proc/PID/status: "Label:\t       n kB", or a label with
\* nothing after it, or a label followed by text
StatusEntries ==
  [label : StatusLabels, kind : {"kB"}, n : StatusValues] \cup
  [label : {<<"V", "m", "P", "e", "a", "k">>, <<"N", "a", "m", "e">>},
   kind : {"bare", "text"}, n : {0}]

StatusLine(e) ==
  e.label \o <<":">> \o
  (CASE e.kind = "kB"   -> <<"\t", " ", " ">> \o Str(e.n) \o <<" ", "k", "B">>
     [] e.kind = "bare" -> <<>>
     [] e.kind = "text" -> <<"\t", "b", "a", "s", "h">>) \o <<"\n">>

\* the kernel writes every label once
StatusReports ==
  {r \in SeqsUpTo(StatusEntries, MaxLines) :
     \A i, j \in 1..Len(r) : r[i].label = r[j].label => i = j}

StatusFile(r) == File([i \in 1..Len(r) |-> StatusLine(r[i])])


\* /proc/meminfo: the entries the kernel reports, each "Label:   n kB"; a 2.4
\* kernel puts a "total: used: free:" table in front
MemLabels == {sMemTotal, sMemFree, sBuffers, sCached, sSwapTotal, sSwapFree}

MemValue(label, swap) ==
  CASE label = sMemTotal -> 1000000
    [] label = sMemFree -> 200000
    [] label = sBuffers -> 50000
    [] label = sCached -> 100000
    [] label = sSwapTotal -> swap
    [] label = sSwapFree -> swap \div 2

MemReports == [present : SUBSET MemLabels, swap : {0, 2048}, table : BOOLEAN]

\* the labels in the kernel's order
MemOrder == <<sMemTotal, sMemFree, sBuffers, sCached, sSwapTotal, sSwapFree>>

MemInfoFile(r) ==
  LET kept == SelectSeq(MemOrder, LAMBDA l : l \in r.present)
      body == [i \in 1..Len(kept) |->
                 kept[i] \o <<":", " ", " ">> \o Str(MemValue(kept[i], r.swap))
                         \o <<" ", "k", "B", "\n">>]
      table == << <<" ", "t", "o", "t", "a", "l", ":", " ", "u", "s", "e", "d", ":", "\n">>,
                  <<"M", "e", "m", ":", " ", "1", "0", "2", "4", " ", "5", "1", "2", "\n">> >>
  IN  File(IF r.table THEN table \o body ELSE body)

\* /proc/uptime: "350.50 1200.00", seconds with two decimals
UptimeFiles ==
  {File(<< <<"3", "5", "0", ".", "5", "0", " ", "1", "2", "0", "0", ".", "0", "0", "\n">> >>),
   File(<<>>)}

\* os.listdir("/proc"): the process ids 1..MaxPid among other entries
MaxPid == 2

ProcListing ==
  << <<"s", "e", "l", "f">>, <<"m", "e", "m", "i", "n", "f", "o">> >> \o
  [i \in 1..MaxPid |-> Str(i)]

\* os.stat("/proc/PID"): (st_uid, st_gid)
Owners == {<<0, 0>>, <<1000, 100>>}

\* /proc/PID/statm, in pages: size resident shared text lib data dt
StatmReports ==
  {<<0, 0, 0, 0, 0, 0, 0>>, <<300, 125, 0, 20, 0, 100, 0>>,
   <<300, 256, 0, 20, 0, 100, 0>>, <<300, 125, 126, 20, 0, 100, 0>>, <<>>}

StatmFile(r) == File(IF r = <<>> THEN <<>> ELSE <<Join([i \in 1..Len(r) |-> Str(r[i])]) \o <<"\n">> >>)

\* /proc/PID/status as the scan meets it: no Vm field, some Vm fields, a field cut short
ScanStatusReports ==
  {<< [label |-> <<"N", "a", "m", "e">>, kind |-> "text", n |-> 0] >>,
   << [label |-> <<"V", "m", "P", "e", "a", "k">>, kind |-> "kB", n |-> 4 * 1024 * 1024 + 1],
      [label |-> <<"V", "m", "L", "c", "k">>, kind |-> "kB", n |-> 0] >>,
   << [label |-> <<"V", "m", "P", "e", "a", "k">>, kind |-> "bare", n |-> 0] >>}

\* /proc/PID/stat: 44 fields, of which the program reads these
StatReports ==
  {[cmd |-> <<"i", "n", "i", "t">>, state |-> <<"S">>, ppid |-> 0, minflt |-> 10,
    majflt |-> 0, utime |-> 1, stime |-> 2, starttime |-> 100, cpu |-> 0],
   [cmd |-> <<"b", "a", "s", "h">>, state |-> <<"R">>, ppid |-> 1, minflt |-> 20,
    majflt |-> 1, utime |-> 3, stime |-> 1, starttime |-> 200, cpu |-> 1]}

StatFile(p, r) ==
  File(<< Join([i \in 1..44 |->
                 CASE i = 1 -> Str(p)
                   [] i = 2 -> <<"(">> \o r.cmd \o <<")">>
                   [] i = 3 -> r.state
                   [] i = 4 -> Str(r.ppid)
                   [] i = 10 -> Str(r.minflt)
                   [] i = 12 -> Str(r.majflt)
                   [] i = 14 -> Str(r.utime)
                   [] i = 15 -> Str(r.stime)
                   [] i = 22 -> Str(r.starttime)
                   [] i = 39 -> Str(r.cpu)
                   [] OTHER -> <<"0">>]) \o <<"\n">> >>)

\* /proc/PID/task: not accessible (None), or the number of entries listed
TaskDirs == {None, Some(3)}

-----------------------------------------------------------------------------
(* Spec: one run of the program *)

DEBUG == 0

procVars == <<kernelUptime, names, pid, pinfo, pinfos, pinfoRet, why, visited,
             yielded>>
viewVars == <<plist, statMap, maxCpu, processTable, ulist, pusageTable, cpuTable>>
statusVars == <<statusIn, statusOut>>

\* nothing has run yet
NoRun ==
  /\ out = <<>> /\ stderr = <<>> /\ raised = None /\ meminfo = None
  /\ kernelUptime = 0 /\ names = <<>> /\ pid = 0 /\ pinfo = <<>>
  /\ pinfos = <<>> /\ pinfoRet = None /\ why = "" /\ visited = {} /\ yielded = {}
  /\ plist = <<>> /\ statMap = <<>>
  /\ maxCpu = 0 /\ processTable = <<>> /\ ulist = <<>> /\ pusageTable = <<>>
  /\ cpuTable = <<>>

Init ==
  /\ pc = "main"
  /\ NoRun
  /\ statusIn = <<>>
  /\ statusOut = None

\* an exception leaves doIt and reaches __main__: with DEBUG the interpreter
\* prints it and exits, without DEBUG "except: pass" drops it
Unwind(r) ==
  /\ raised' = Some([exc |-> r.exc, arg |-> r.arg])
  /\ stderr' = IF DEBUG # 0 THEN <<[exc |-> r.exc, arg |-> r.arg]>> ELSE stderr
  /\ pc' = "exit"

\* __main__ calls doIt, which prints the report's first line
DoItHeader ==
  /\ pc = "main"
  /\ out' = Append(out, "Report generated at")
  /\ pc' = "getMemInfo"
  /\ UNCHANGED <<stderr, raised, meminfo, procVars, viewVars, statusVars>>

\* meminfo = getMemInfo()
DoItGetMemInfo ==
  /\ pc = "getMemInfo"
  /\ \E r \in MemReports :
       LET m == getMemInfo(MemInfoFile(r)) IN
       IF m.ok
       THEN /\ meminfo' = Some(m.val)
            /\ pc' = "memSummary"
            /\ UNCHANGED <<raised, stderr>>
       ELSE /\ Unwind(m)
            /\ UNCHANGED meminfo
  /\ UNCHANGED <<out, procVars, viewVars, statusVars>>

\* the "System wide memory information" section, and the label of the next
\* one.  meminfo is not read after this section and is dropped here.
DoItMemSummary ==
  /\ pc = "memSummary"
  /\ LET m == meminfo[1]
         o1 == Append(out, "System wide memory information:")
     IN  IF sMemTotal \notin DOMAIN m
         THEN /\ out' = o1
              /\ Unwind(RaiseKeyError(sMemTotal))
         ELSE IF m[sMemTotal] = 0
         THEN /\ out' = o1
              /\ Unwind(Raise("ZeroDivisionError"))
         ELSE /\ out' = o1 \o <<"RAM:", "Swap:",
                                "Process memory usage sorted by unique resident set size (in KiB):">>
              /\ pc' = "getProcessInfos"
              /\ UNCHANGED <<raised, stderr>>
  /\ meminfo' = None
  /\ UNCHANGED <<procVars, viewVars, statusVars>>

\* a token of /proc/uptime is seconds with two decimals
IsFloatLiteral(s) ==
  /\ Len(s) >= 4
  /\ s[Len(s) - 2] = "."
  /\ \A i \in 1..Len(s) : i # Len(s) - 2 => IsDigit(s[i])

\* int(float(s) * 100)
ticksOf(s) ==
  digitsValue(SubSeq(s, 1, Len(s) - 3), 1, 0) * 100 + digitsValue(SubSeq(s, Len(s) - 1, Len(s)), 1, 0)

\* getProcessInfos up to its loop: the uptime and the listing of /proc
ScanStart ==
  /\ pc = "getProcessInfos"
  /\ \E f \in UptimeFiles :
       LET up == parseDelimFile(f) IN
       IF Len(up.val) # 2 \/ ~IsFloatLiteral(up.val[1])
       THEN /\ Unwind(Raise("ValueError"))
            /\ UNCHANGED <<kernelUptime, names>>
       ELSE /\ kernelUptime' = ticksOf(up.val[1])
            /\ names' = ProcListing
            /\ pc' = "listdir"
            /\ UNCHANGED <<raised, stderr>>
  /\ UNCHANGED <<out, meminfo, pid, pinfo, pinfos, pinfoRet, why, visited, yielded,
                 viewVars, statusVars>>

\* "for n in os.listdir('/proc')": an entry that is no number is passed over
ScanSkip ==
  /\ pc = "listdir"
  /\ names # <<>>
  /\ ~IsIntLiteral(Head(names))
  /\ names' = Tail(names)
  /\ UNCHANGED <<pc, out, stderr, raised, meminfo, kernelUptime, pid, pinfo, pinfos,
                 pinfoRet, why, visited, yielded, viewVars, statusVars>>

\* ... and a number is handed to getProcessInfo
ScanNext ==
  /\ pc = "listdir"
  /\ names # <<>>
  /\ IsIntLiteral(Head(names))
  /\ pid' = int(Head(names))
  /\ names' = Tail(names)
  /\ pinfo' = <<>>
  /\ visited' = visited \cup {int(Head(names))}
  /\ pc' = "stat"
  /\ UNCHANGED <<out, stderr, raised, meminfo, kernelUptime, pinfos, pinfoRet, why,
                 yielded, viewVars, statusVars>>

\* getProcessInfo returns None: the "except: pass", or the kernel thread test
NoRecord(reason) ==
  /\ pinfoRet' = None
  /\ why' = reason
  /\ pinfo' = <<>>
  /\ pc' = "return"

gpiFrame == <<out, stderr, raised, meminfo, kernelUptime, names, pid, pinfos,
              visited, yielded, viewVars, statusVars>>

\* stats = os.stat("/proc/%d" % pid)
GetOwner ==
  /\ pc = "stat"
  /\ \/ \E o \in Owners :
          /\ pinfo' = [uid |-> o[1], gid |-> o[2]]
          /\ pc' = "statm"
          /\ UNCHANGED <<pinfoRet, why>>
     \/ NoRecord("os.stat")
  /\ UNCHANGED gpiFrame

\* pmem = parseNumberFile("/proc/%d/statm" % pid) ... pinfo["ures"]
GetStatm ==
  /\ pc = "statm"
  /\ \E f \in {StatmFile(r) : r \in StatmReports} \cup {NoFile} :
       LET m == readStatm(f) IN
       IF ~m.ok THEN NoRecord("statm")
       ELSE IF m.val = None THEN NoRecord("kernel thread")
       ELSE /\ pinfo' = pinfo @@ m.val[1]
            /\ pc' = "status"
            /\ UNCHANGED <<pinfoRet, why>>
  /\ UNCHANGED gpiFrame

\* psmem = getProcessMemFromStatus(pid)
GetStatus ==
  /\ pc = "status"
  /\ \E f \in {StatusFile(r) : r \in ScanStatusReports} \cup {NoFile} :
       LET m == getProcessMemFromStatus(f) IN
       IF ~m.ok THEN NoRecord("status")
       ELSE /\ pinfo' = pinfo @@ [statusMem |-> m.val]
            /\ pc' = "pstat"
            /\ UNCHANGED <<pinfoRet, why>>
  /\ UNCHANGED gpiFrame

\* pstat = parseDelimFile("/proc/%d/stat" % pid) ... pinfo["ppid"]
GetStat ==
  /\ pc = "pstat"
  /\ \E f \in {StatFile(pid, r) : r \in StatReports} \cup {File(<<>>), NoFile} :
       LET m == readStat(f, pid, kernelUptime) IN
       IF ~m.ok THEN NoRecord("stat")
       ELSE /\ pinfo' = pinfo @@ m.val
            /\ pc' = "task"
            /\ UNCHANGED <<pinfoRet, why>>
  /\ UNCHANGED gpiFrame

\* the thread count, and "pinfoRet = pinfo ... return pinfoRet"
GetThreads ==
  /\ pc = "task"
  /\ \E t \in TaskDirs : pinfoRet' = Some(pinfo @@ [threads |-> countThreads(t)])
  /\ why' = "record"
  /\ yielded' = yielded \cup {pid}
  /\ pinfo' = <<>>
  /\ pc' = "return"
  /\ UNCHANGED <<out, stderr, raised, meminfo, kernelUptime, names, pid, pinfos,
                 visited, viewVars, statusVars>>

\* "if pinfo != None: pinfos[pid] = pinfo"
ScanStore ==
  /\ pc = "return"
  /\ pinfos' = IF pinfoRet # None THEN (pid :> pinfoRet[1]) @@ pinfos ELSE pinfos
  /\ pinfoRet' = None
  /\ why' = ""
  /\ pc' = "listdir"
  /\ UNCHANGED <<out, stderr, raised, meminfo, kernelUptime, names, pid, pinfo,
                 visited, yielded, viewVars, statusVars>>

\* the listing is exhausted and getProcessInfos returns pinfos; then the
\* process table: plist, statMap, maxCpu, the rows, the output
DoItProcesses ==
  /\ pc = "listdir"
  /\ names = <<>>
  /\ LET keys == keysOf(DOMAIN pinfos)
         r == rankLoop(pinfos, keys, 1, [maxCpu |-> 0, plist |-> <<>>, statMap |-> {}])
     IN  IF ~r.ok
         THEN /\ Unwind(r)
              /\ UNCHANGED <<out, viewVars>>
         ELSE LET pl == ranked(r.val.plist)
                  sm == sortedKeys(r.val.statMap)
              IN  /\ plist' = pl
                  /\ statMap' = sm
                  /\ maxCpu' = r.val.maxCpu
                  /\ processTable' =
                       [i \in 1..Len(pl) |->
                          getProcessRow(pinfos[pl[i][2]], sm,
                                        showCpu(pinfos, r.val.maxCpu)).val]
                  /\ out' = Append(out, "processTable")
                  /\ pc' = "users"
                  /\ UNCHANGED <<raised, stderr, ulist, pusageTable, cpuTable>>
  /\ UNCHANGED <<meminfo, procVars, statusVars>>

\* "Memory usage per user:"
DoItUsers ==
  /\ pc = "users"
  /\ ulist' = ulistOf(users(pinfos))
  /\ out' = out \o <<"Memory usage per user:", "userTable">>
  /\ pc' = "commands"
  /\ UNCHANGED <<stderr, raised, meminfo, procVars, plist, statMap, maxCpu,
                 processTable, pusageTable, cpuTable, statusVars>>

\* "Memory usage by processes with same names:"
DoItCommands ==
  /\ pc = "commands"
  /\ pusageTable' = pusageRows(pusage(pinfos))
  /\ out' = out \o <<"Memory usage by processes with same names:", "pusageTable">>
  /\ pc' = "cpus"
  /\ UNCHANGED <<stderr, raised, meminfo, procVars, plist, statMap, maxCpu,
                 processTable, ulist, cpuTable, statusVars>>

\* "Process information per CPU (main-threads only):", when maxCpu > 0
DoItCpus ==
  /\ pc = "cpus"
  /\ IF showCpu(pinfos, maxCpu)
     THEN /\ cpuTable' = cpuRows(cpuStats(pinfos))
          /\ out' = out \o <<"Process information per CPU (main-threads only):", "cpuTable">>
     ELSE UNCHANGED <<cpuTable, out>>
  /\ pc' = "exit"
  /\ UNCHANGED <<stderr, raised, meminfo, procVars, plist, statMap, maxCpu,
                 processTable, ulist, pusageTable, statusVars>>

Next ==
  \/ DoItHeader
  \/ DoItGetMemInfo
  \/ DoItMemSummary
  \/ ScanStart
  \/ ScanSkip
  \/ ScanNext
  \/ GetOwner
  \/ GetStatm
  \/ GetStatus
  \/ GetStat
  \/ GetThreads
  \/ ScanStore
  \/ DoItProcesses
  \/ DoItUsers
  \/ DoItCommands
  \/ DoItCpus

Spec == Init /\ [][Next]_vars

-----------------------------------------------------------------------------
(* StatusSpec: getProcessMemFromStatus applied to one status file *)

StatusInit ==
  /\ pc = "status"
  /\ statusIn \in StatusReports
  /\ statusOut = None
  /\ NoRun

CallGetProcessMemFromStatus ==
  /\ pc = "status"
  /\ statusOut' = Some(getProcessMemFromStatus(StatusFile(statusIn)))
  /\ pc' = "status_done"
  /\ UNCHANGED <<out, stderr, raised, meminfo, kernelUptime, names, pid, pinfo,
                 pinfos, pinfoRet, why, visited, yielded, viewVars, statusIn>>

StatusNext == CallGetProcessMemFromStatus

StatusSpec == StatusInit /\ [][StatusNext]_vars

-----------------------------------------------------------------------------
(* C10 *)

\* the entries of the status file whose label is Vm + a key of vmStatusMap
Recognised(r) ==
  {i \in 1..Len(r) : \E k \in DOMAIN vmStatusMap : r[i].label = <<"V", "m">> \o k}

ColumnOf(e) == vmStatusMap[SubSeq(e.label, 3, Len(e.label))]

\* C10: when getProcessMemFromStatus returns, every recognised Vm field above
\* 4*1024*1024 is recorded as -1, every other recognised field is recorded with
\* its own value (0 stays 0), nothing else is recorded, and the result is None
\* exactly when the file holds no recognised field.
C10_StatusFields ==
  (pc = "status_done" /\ statusOut[1].ok) =>
    LET res == statusOut[1].val
        rec == Recognised(statusIn)
    IN  /\ (res = None) <=> (rec = {})
        /\ res # None =>
             /\ DOMAIN res[1] = {ColumnOf(statusIn[i]) : i \in rec}
             /\ \A i \in rec :
                  res[1][ColumnOf(statusIn[i])] =
                    IF statusIn[i].n > 4194304 THEN -1 ELSE statusIn[i].n

\* a file with a field above the ceiling, one at it and the call returned
C10_Witness ==
  /\ pc = "status_done" /\ statusOut[1].ok
  /\ \E i, j \in Recognised(statusIn) :
       statusIn[i].n > 4194304 /\ statusIn[j].n = 4194304

-----------------------------------------------------------------------------
(* The claims about one run of the program *)

\* how far doIt has come without raising
Completed == pc = "exit" /\ raised = None
ProcessesDone == pc \in {"users", "commands", "cpus"} \/ Completed
UsersDone == pc \in {"commands", "cpus"} \/ Completed
CommandsDone == pc = "cpus" \/ Completed

\* getProcessInfos has returned its record set and doIt has left the loop
\* over it, by falling out of it or by raising
PastRanking ==
  /\ visited = 1..MaxPid
  /\ pc \in {"users", "commands", "cpus", "exit"}

\* getProcessInfos returns: pinfos is the record set doIt works on
ScanReturned ==
  /\ pc = "listdir"
  /\ names = <<>>
  /\ visited = 1..MaxPid

\* the sum of the values of a function over the set S of its arguments
RECURSIVE SumOver(_, _)
SumOver(S, f) ==
  IF S = {} THEN 0
  ELSE LET x == CHOOSE y \in S : TRUE IN f[x] + SumOver(S \ {x}, f)

TotalUres == SumOver(DOMAIN pinfos, [p \in DOMAIN pinfos |-> pinfos[p].ures])

\* every record of pinfos has exactly one row in the process table
OneRowPerRecord ==
  /\ Len(processTable) = Cardinality(DOMAIN pinfos)
  /\ \A p \in DOMAIN pinfos :
       \E i \in 1..Len(processTable) :
         processTable[i].pid = p /\ processTable[i].ures = pinfos[p].ures

UresNonIncreasing ==
  \A i, j \in 1..Len(processTable) :
    i < j => processTable[i].ures >= processTable[j].ures

\* C1 as stated: for every record set doIt builds the ranked list, which holds
\* every record once, URES non-increasing, and records of equal URES in
\* ascending pid order.
C1_RankedList ==
  PastRanking =>
    /\ raised = None
    /\ OneRowPerRecord
    /\ UresNonIncreasing
    /\ \A i, j \in 1..Len(processTable) :
         (i < j /\ processTable[i].ures = processTable[j].ures)
           => processTable[i].pid < processTable[j].pid

\* the per-user list and the per-command rows that lines 466-529 make of the
\* record set pinfos
UserList == ulistOf(users(pinfos))
CommandRows == pusageRows(pusage(pinfos))

\* C2: for every record set, the per-user URES totals add up to the URES of all
\* records, and so do the URES of the per-command rows together with the Rest
\* row.
C2_TotalsAddUp ==
  /\ ScanReturned =>
       LET u == UserList
           c == CommandRows
           total == TotalUres
       IN  /\ SumOver(1..Len(u), [i \in 1..Len(u) |-> u[i][1]]) = total
           /\ SumOver(1..Len(c), [i \in 1..Len(c) |-> c[i][5]]) = total
  /\ pc = "commands" => ulist = UserList
  /\ pc = "cpus" => pusageTable = CommandRows

\* two records of one user: one command with a row of its own and a Rest row
\* that is not 0
C2_Witness ==
  /\ CommandsDone
  /\ Cardinality(DOMAIN pinfos) = 2
  /\ Len(ulist) = 1
  /\ Len(pusageTable) = 2
  /\ pusageTable[1][5] >= 1024
  /\ pusageTable[2][5] > 0

\* the commands of pinfos whose summed URES is below 1024
Lumped == {c \in DOMAIN pusage(pinfos) : pusage(pinfos)[c][1] < 1024}

\* C3 as stated: no command below 1024 KiB has a row of its own, and the Rest
\* row's count, URES, user time and kernel time are the sums of the process
\* counts, URES, user times and kernel times of the commands left out.
C3_RestRow ==
  CommandsDone =>
    LET t == pusage(pinfos)
        n == Len(pusageTable)
        rest == pusageTable[n]
        cnt == [c \in DOMAIN t |-> t[c][2]]
        ures == [c \in DOMAIN t |-> t[c][1]]
        ut == [c \in DOMAIN t |-> t[c][3]]
        st == [c \in DOMAIN t |-> t[c][4]]
    IN  /\ \A i \in 1..(n - 1) : pusageTable[i][5] >= 1024
        /\ {pusageTable[i][1] : i \in 1..(n - 1)} = DOMAIN t \ Lumped
        /\ rest[1] = sRest
        /\ rest[2] = SumOver(Lumped, cnt)
        /\ rest[5] = SumOver(Lumped, ures)
        /\ rest[3] = SumOver(Lumped, ut)
        /\ rest[4] = SumOver(Lumped, st)

\* C4 as stated: URES is resident minus shared in every record, and no record
\* with a negative URES is in the ranked output.
C4_NoNegativeUres ==
  /\ \A p \in DOMAIN pinfos : pinfos[p].ures = pinfos[p].res - pinfos[p].shared
  /\ ProcessesDone => \A i \in 1..Len(processTable) : processTable[i].ures >= 0

PinfoFields ==
  {"uid", "gid", "vmsize", "res", "shared", "ures", "statusMem", "cmd", "state",
   "minflt", "majflt", "utime", "stime", "cpu", "existsFor", "pid", "ppid", "threads"}

\* C5: getProcessInfo returns None when os.stat, statm, status or stat fails or
\* the size is 0, and else a record with every field set; getProcessInfos maps
\* exactly the pids that gave a record, visits every pid of the listing, and no
\* process of size 0 is in pinfos or in a view.
C5_WholeRecordOrNothing ==
  /\ pc = "return" =>
       /\ why \in {"os.stat", "statm", "kernel thread", "status", "stat"} => pinfoRet = None
       /\ why = "record" =>
            /\ pinfoRet # None
            /\ DOMAIN pinfoRet[1] = PinfoFields
            /\ pinfoRet[1].pid = pid
            /\ pinfoRet[1].threads \in {0} \cup {t[1] : t \in TaskDirs \ {None}}
       /\ why \in {"os.stat", "statm", "kernel thread", "status", "stat", "record"}
  /\ pc = "listdir" => DOMAIN pinfos = yielded
  /\ (pc = "listdir" /\ names = <<>>) => visited = 1..MaxPid
  /\ ProcessesDone => (visited = 1..MaxPid /\ DOMAIN pinfos = yielded)
  /\ \A p \in DOMAIN pinfos : pinfos[p].vmsize # 0 /\ DOMAIN pinfos[p] = PinfoFields
  /\ \A i \in 1..Len(processTable) : processTable[i].vmsize # 0

\* the scan went on after a pid without a record and the report was printed
C5_Witness ==
  /\ Completed
  /\ 1 \notin DOMAIN pinfos
  /\ MaxPid \in DOMAIN pinfos
  /\ Len(processTable) >= 1

\* C6 as stated: once getProcessInfos has returned a record set, doIt prints
\* the process, user and command views without raising.
C6_AggregationNeverFails ==
  (pc = "exit" /\ visited = 1..MaxPid) =>
    /\ raised = None
    /\ \A t \in {"processTable", "userTable", "pusageTable"} :
         \E i \in 1..Len(out) : out[i] = t

Required == {sMemFree, sBuffers, sCached, sSwapTotal, sSwapFree}

\* C7 as stated: a run that ends on a required entry missing from
\* /proc/meminfo names that entry in an error message, never works with a
\* value made up for it, and prints no memory summary or later section.
C7_MissingEntryReported ==
  /\ meminfo # None => Required \subseteq DOMAIN meminfo[1]
  /\ (pc = "exit" /\ raised # None /\ raised[1].exc = "KeyError" /\ raised[1].arg \in Required) =>
       /\ out = <<"Report generated at">>
       /\ stderr = <<raised[1]>>

CpusOf == {pinfos[p].cpu : p \in DOMAIN pinfos}

Printed(t) == \E i \in 1..Len(out) : out[i] = t

\* C8 as stated: for every record set the per-CPU section and the C# column
\* are there exactly when some record has a CPU other than 0; the section has
\* one row per CPU, in ascending order of the CPU.
C8_CpuView ==
  /\ PastRanking =>
       IF CpusOf \ {0} # {}
       THEN /\ Printed("processTable")
            /\ \A i \in 1..Len(processTable) : processTable[i].cpu # None
       ELSE \A i \in 1..Len(processTable) : processTable[i].cpu = None
  /\ (pc = "exit" /\ visited = 1..MaxPid) =>
       /\ Printed("cpuTable") <=> (CpusOf \ {0} # {})
       /\ Printed("cpuTable") =>
            /\ {cpuTable[i][1] : i \in 1..Len(cpuTable)} = CpusOf
            /\ Len(cpuTable) = Cardinality(CpusOf)
            /\ \A i, j \in 1..Len(cpuTable) : i < j => cpuTable[i][1] < cpuTable[j][1]

UidsOf == {pinfos[p].uid : p \in DOMAIN pinfos}

OneRowPerUser(u) ==
  /\ Len(u) = Cardinality(UidsOf)
  /\ {u[i][5] : i \in 1..Len(u)} = UidsOf

====
